---- MODULE Spec2Model ----
(***************************************************************************)
(* Model of the MIDI-timecode synchronisation engine of src/src/main.rs:   *)
(* the shared atomics written by the session event handlers, the emission  *)
(* loop that reads them every tick, and the two MTC encoders.              *)
(*                                                                         *)
(* Number representation.  i32 values are kept as integers in              *)
(* MinI32..MaxI32 and every i32 addition goes through WrappingAdd /        *)
(* AddOverflows.  Values wider than 32 bits (epoch milliseconds held in    *)
(* usize / u128, 100ns ticks held in i64) are kept as two limbs            *)
(* [hi, lo] standing for hi * Limb + lo, 0 <= lo < Limb.                   *)
(*                                                                         *)
(* Scheduling.  The runtime is current_thread: a loop iteration and an     *)
(* event handler each run from one await to the next without interleaving, *)
(* so each is one step.  position, out and clock describe the step just    *)
(* taken (a handler step writes nothing and reads no clock).               *)
(*                                                                         *)
(* Build and target.  usize is 64 bits; a panic unwinds the task it        *)
(* happens in and leaves the other tasks running; overflow_checks says     *)
(* whether i32 `+` panics or wraps.  Config offsets are JSON integers.     *)
(***************************************************************************)
EXTENDS Integers, Sequences, FiniteSets, TLC

VARIABLES
    song_offset,                 \* AtomicI32, offsetMs
    enabled_for_song,            \* AtomicBool, enabledForTrack
    play_position,               \* AtomicI32, basePositionMs
    last_play_position_update,   \* AtomicUsize, lastUpdateTimestampMs (wide)
    last_sent_position_update,   \* AtomicUsize, lastSentTimestampMs (wide)
    is_playing,                  \* AtomicBool
    message_index,               \* quarter-frame cursor, local to the emission task
    position,                    \* the loop-body local `position` of the step just taken
    out,                         \* messages written to the MIDI sink by the step just taken
    emitter,                     \* "running" | "panicked": the emission task
    clock,                       \* SystemTime::now() as read by the step just taken (wide)
    disable_songs_outside_config,\* config flag, fixed at startup
    overflow_checks,             \* build profile: i32 `+` panics on overflow (else wraps)
    sessions,                    \* number of consumer tasks spawned; the k-th is task k
    last_step                    \* the loop iteration or event handled by the step just taken

vars == <<song_offset, enabled_for_song, play_position, last_play_position_update,
          last_sent_position_update, is_playing, message_index, position, out,
          emitter, clock, disable_songs_outside_config, overflow_checks, sessions,
          last_step>>

shared == <<song_offset, enabled_for_song, play_position, last_play_position_update,
            last_sent_position_update, is_playing>>

(***************************************************************************)
(* Machine integers                                                        *)
(***************************************************************************)
MaxI32 == 2147483647
MinI32 == -MaxI32 - 1
Limb == 2^30

Wide(h, l) == [hi |-> h, lo |-> l]
WideZero == Wide(0, 0)

\* a < b on two-limb values
WideLess(a, b) == a.hi < b.hi \/ (a.hi = b.hi /\ a.lo < b.lo)

\* u128::checked_sub(..).unwrap_or(0)
CheckedSubOrZero(a, b) ==
    IF WideLess(a, b) THEN WideZero
    ELSE IF a.lo >= b.lo THEN Wide(a.hi - b.hi, a.lo - b.lo)
    ELSE Wide(a.hi - b.hi - 1, (a.lo + Limb) - b.lo)

\* `x as i32` of a non-negative wide value: the low 32 bits, read as signed
WideAsI32(a) ==
    LET top == a.hi % 4
    IN  IF top < 2 THEN top * Limb + a.lo ELSE (top - 4) * Limb + a.lo

\* wide / d for a small positive d (long division on the two limbs)
WideDiv(a, d) ==
    LET r == a.hi % d
    IN  Wide(a.hi \div d, r * (Limb \div d) + (r * (Limb % d) + a.lo) \div d)

\* i32 `+`: the sum leaves the i32 range
AddOverflows(a, b) ==
    \/ b > 0 /\ a > MaxI32 - b
    \/ b < 0 /\ a < MinI32 - b

\* i32 `+` in a build without overflow checks: two's-complement wrap
WrappingAdd(a, b) ==
    IF b > 0 /\ a > MaxI32 - b THEN (a + MinI32) + (b + MinI32)
    ELSE IF b < 0 /\ a < MinI32 - b THEN ((a + MaxI32) + 1) + ((b + MaxI32) + 1)
    ELSE a + b

\* i32 `/` and `%` by a positive constant: truncation toward zero
\* (\div and % round toward minus infinity; -a would overflow for a = -2^31)
TruncDiv(a, b) == IF a >= 0 \/ a % b = 0 THEN a \div b ELSE (a \div b) + 1
TruncRem(a, b) == IF a >= 0 \/ a % b = 0 THEN a % b ELSE (a % b) - b

RECURSIVE BitAnd(_, _)
BitAnd(a, b) ==
    IF a = 0 \/ b = 0 THEN 0
    ELSE (a % 2) * (b % 2) + 2 * BitAnd(a \div 2, b \div 2)

RECURSIVE BitOr(_, _)
BitOr(a, b) ==
    IF a = 0 THEN b
    ELSE IF b = 0 THEN a
    ELSE (IF a % 2 = 1 \/ b % 2 = 1 THEN 1 ELSE 0) + 2 * BitOr(a \div 2, b \div 2)

\* `x & m` for an i32 x and a mask 0 <= m < 2^31 (bit 31 of x plays no part)
AndI32(x, m) == BitAnd(IF x < 0 THEN (x + MaxI32) + 1 ELSE x, m)

\* `x >> n` for an i32 x: arithmetic shift
ShrI32(x, n) == x \div (2^n)

\* `x as u8` for an i32 x
AsU8(x) == x % 256

(***************************************************************************)
(* TimecodeCodec: send_position and send_mtc_quarter_frame                 *)
(***************************************************************************)
MsPerHour == 3600000
MsPerMinute == 60000
MsPerSecond == 1000
FrameRate == 25

\* the decomposition at 30 frames per second
Decompose_Rate30(p) ==
    LET rem1 == TruncRem(p, MsPerHour)
        rem2 == TruncRem(rem1, MsPerMinute)
        rem3 == TruncRem(rem2, MsPerSecond)
    IN  [hours   |-> TruncDiv(p, MsPerHour),
         minutes |-> TruncDiv(rem1, MsPerMinute),
         seconds |-> TruncDiv(rem2, MsPerSecond),
         frames  |-> TruncDiv(rem3 * 30, MsPerSecond)]

\* the decomposition both encoders start with
Decompose(p) ==
    LET hours   == TruncDiv(p, MsPerHour)
        rem1    == TruncRem(p, MsPerHour)
        minutes == TruncDiv(rem1, MsPerMinute)
        rem2    == TruncRem(rem1, MsPerMinute)
        seconds == TruncDiv(rem2, MsPerSecond)
        rem3    == TruncRem(rem2, MsPerSecond)
        frames  == TruncDiv(rem3 * FrameRate, MsPerSecond)
    IN  [hours |-> hours, minutes |-> minutes, seconds |-> seconds, frames |-> frames]

\* a full frame whose hours byte carries no rate bits
send_position_NoRate(p) ==
    LET d == Decompose(p)
    IN  <<240, 127, 127, 1, 1, AsU8(d.hours), AsU8(d.minutes), AsU8(d.seconds),
          AsU8(d.frames), 247>>

\* the 10 bytes send_position hands to the sink
send_position(p) ==
    LET d              == Decompose(p)
        hours_bcd      == AsU8(d.hours)
        minutes_bcd    == AsU8(d.minutes)
        seconds_bcd    == AsU8(d.seconds)
        frames_bcd     == AsU8(d.frames)
        rr             == 1
        hours_rate_bcd == BitOr((rr * 32) % 256, hours_bcd)
    IN  <<240, 127, 127, 1, 1, hours_rate_bcd, minutes_bcd, seconds_bcd, frames_bcd, 247>>

\* the 8 two-byte chunks of quarter_frames
QuarterFrames(p) ==
    LET d                   == Decompose(p)
        frames_low_nibble   == AsU8(AndI32(d.frames, 15))
        frames_high_nibble  == AsU8(AndI32(ShrI32(d.frames, 4), 1))
        seconds_low_nibble  == AsU8(AndI32(d.seconds, 15))
        seconds_high_nibble == AsU8(AndI32(ShrI32(d.seconds, 4), 3))
        minutes_low_nibble  == AsU8(AndI32(d.minutes, 15))
        minutes_high_nibble == AsU8(AndI32(ShrI32(d.minutes, 4), 3))
        hours_low_nibble    == AsU8(AndI32(d.hours, 15))
        rate                == 1
        hours_high_nibble   == BitOr(AsU8(AndI32(ShrI32(d.hours, 4), 1)), (rate * 2) % 256)
    IN  << <<241, frames_low_nibble>>,
           <<241, BitOr(frames_high_nibble, 16)>>,
           <<241, BitOr(seconds_low_nibble, 32)>>,
           <<241, BitOr(seconds_high_nibble, 48)>>,
           <<241, BitOr(minutes_low_nibble, 64)>>,
           <<241, BitOr(minutes_high_nibble, 80)>>,
           <<241, BitOr(hours_low_nibble, 96)>>,
           <<241, BitOr(hours_high_nibble, 112)>> >>

\* a selection that skips one chunk too many
send_mtc_quarter_frame_SkipOne(p, idx) == QuarterFrames(p)[((idx + 1) % 8) + 1]

\* the one message send_mtc_quarter_frame hands to the sink
send_mtc_quarter_frame(p, idx) == QuarterFrames(p)[idx + 1]

(***************************************************************************)
(* Configuration (read once at startup, immutable afterwards)              *)
(***************************************************************************)
JNumber(n) == [kind |-> "Number", n |-> n]
JString(s) == [kind |-> "String", s |-> s]
JNull == [kind |-> "Null"]

\* the "songs" array of the config file
Songs ==
    << [title |-> JString("A"), artist |-> JString("B"), timecodeOffset |-> JNumber(5000)],
       [title |-> JString("A"), artist |-> JString("B"), timecodeOffset |-> JNumber(7000)],
       [title |-> JString("A"), artist |-> JString("C"), timecodeOffset |-> JString("late")],
       [title |-> JString("D"), artist |-> JString("B"), timecodeOffset |-> JNumber(-3000)] >>

\* serde_json::Value == &str
ValueEqStr(v, s) == v.kind = "String" /\ v.s = s

SongMatches(song, song_title, song_artist) ==
    ValueEqStr(song.title, song_title) /\ ValueEqStr(song.artist, song_artist)

\* a lookup that compares titles only
get_song_TitleOnly(songs, song_title, song_artist) ==
    LET hits == {i \in 1..Len(songs) : ValueEqStr(songs[i].title, song_title)}
    IN  IF hits = {} THEN JNull
        ELSE songs[CHOOSE i \in hits : \A j \in hits : i <= j]

\* a lookup that returns the last matching entry
get_song_LastMatch(songs, song_title, song_artist) ==
    LET hits == {i \in 1..Len(songs) : SongMatches(songs[i], song_title, song_artist)}
    IN  IF hits = {} THEN JNull
        ELSE songs[CHOOSE i \in hits : \A j \in hits : i >= j]

\* iter().find(..): the first matching entry, Null (the caller's unwrap_or) when none
get_song(songs, song_title, song_artist) ==
    LET hits == {i \in 1..Len(songs) : SongMatches(songs[i], song_title, song_artist)}
    IN  IF hits = {} THEN JNull
        ELSE songs[CHOOSE i \in hits : \A j \in hits : i <= j]

\* Number(n) => n.as_i64() as i32, anything else => 0
get_song_offset(song) ==
    IF song.timecodeOffset.kind = "Number"
    THEN WideAsI32(Wide(song.timecodeOffset.n \div Limb, song.timecodeOffset.n % Limb))
    ELSE 0

(***************************************************************************)
(* Inputs: what the session provider, the clock and the sink can deliver   *)
(***************************************************************************)
None == [some |-> FALSE]

\* timeline.position, in 100ns ticks (i64)
PositionTicks == {Wide(0, 10000000), Wide(34, 727987983), Wide(19999, 1073731824)}

\* timeline.last_updated_at_ms, epoch milliseconds (i64)
UpdatedAtValues == {Wide(1668, 1000), Wide(1668, 2000)}

Timelines ==
    {[some |-> TRUE, position |-> t, last_updated_at_ms |-> u] :
        t \in PositionTicks, u \in UpdatedAtValues}

Statuses == {"Playing", "Paused"}
Playbacks == {[some |-> TRUE, status |-> st] : st \in Statuses}

Tracks == {<<"A", "B">>, <<"A", "C">>, <<"D", "B">>, <<"D", "C">>, <<"Unknown", "Unknown">>}
Medias == {[some |-> TRUE, title |-> t[1], artist |-> t[2]] : t \in Tracks}

\* SystemTime::now() since the epoch, in milliseconds (u128)
ClockValues ==
    {Wide(1668, 1000), Wide(1668, 2000), Wide(1670, 500), Wide(1670, 1000)}

MaxSessions == 2

TicksPerMs == 10000
CursorLen == 8

(***************************************************************************)
(* Startup: the atomics of main, the first full frame, the spawned loop    *)
(***************************************************************************)
Init ==
    /\ song_offset = 0
    /\ enabled_for_song = FALSE
    /\ play_position = 0
    /\ last_play_position_update = WideZero
    /\ last_sent_position_update = WideZero
    /\ is_playing = FALSE
    /\ disable_songs_outside_config \in BOOLEAN
    /\ overflow_checks \in BOOLEAN
    /\ out = <<send_position(0)>>
    /\ message_index = 0
    /\ position = 0
    /\ emitter = "running"
    /\ clock = WideZero
    /\ sessions = 0
    /\ last_step = [kind |-> "start"]

(***************************************************************************)
(* The emission loop: one iteration, from the loads to the sleep           *)
(***************************************************************************)
\* a loop that outlives its panics
EmitterAlive_Restarted == TRUE

\* the task runs until a panic unwinds it; nothing restarts it
EmitterAlive == emitter = "running"

\* position = position + song_offset
OffsetPosition == WrappingAdd(play_position, song_offset)

\* now.as_millis().checked_sub(last_update as u128).unwrap_or(0)
Elapsed(now) == CheckedSubOrZero(now, last_play_position_update)

\* if is_playing { position = position + elapsed as i32 }
EstimatedPosition(now) ==
    IF is_playing THEN WrappingAdd(OffsetPosition, WideAsI32(Elapsed(now)))
    ELSE OffsetPosition

\* a position that is not zeroed for a disabled track
GatedPosition_NoGate(now) == EstimatedPosition(now)

\* if !enabled_for_song { position = 0 }
GatedPosition(now) == IF ~enabled_for_song THEN 0 ELSE EstimatedPosition(now)

\* a full frame only for an enabled track
HasNewUpdate_WhenEnabled ==
    enabled_for_song /\ last_play_position_update # last_sent_position_update

\* if last_update != last_sent_update
HasNewUpdate == last_play_position_update # last_sent_position_update

\* a quarter-frame gate that forgets enabled_for_song
QuarterFrameDue_IgnoresEnabled == is_playing

\* if is_playing && enabled_for_song
QuarterFrameDue == is_playing /\ enabled_for_song

\* a cursor that skips every other message
NextIndex_Skip(idx) == (idx + 2) % CursorLen

\* message_index = (message_index + 1) % 8
NextIndex(idx) == (idx + 1) % CursorLen

\* a panic (overflow check or unwrap of a failed send) ends the task where it stands
Panic(pos, written, sent_update, now) ==
    /\ emitter' = "panicked"
    /\ position' = pos
    /\ out' = written
    /\ last_sent_position_update' = sent_update
    /\ clock' = now
    /\ UNCHANGED message_index

Tick(now, ffOk, qfOk) ==
    /\ EmitterAlive
    /\ LET last_update == last_play_position_update
           last_sent   == last_sent_position_update
           pos  == GatedPosition(now)
           ff   == IF HasNewUpdate THEN <<send_position(pos)>> ELSE <<>>
           qf   == IF QuarterFrameDue
                   THEN <<send_mtc_quarter_frame(pos, message_index)>> ELSE <<>>
           sent == IF HasNewUpdate THEN last_update ELSE last_sent
       IN  IF overflow_checks /\ AddOverflows(play_position, song_offset)
           THEN Panic(play_position, <<>>, last_sent, WideZero)
           ELSE IF overflow_checks /\ is_playing
                   /\ AddOverflows(OffsetPosition, WideAsI32(Elapsed(now)))
           THEN Panic(OffsetPosition, <<>>, last_sent, now)
           ELSE IF HasNewUpdate /\ ~ffOk
           THEN Panic(pos, <<>>, last_sent, now)
           ELSE IF QuarterFrameDue /\ ~qfOk
           THEN Panic(pos, ff, sent, now)
           ELSE /\ position' = pos
                /\ out' = ff \o qf
                /\ last_sent_position_update' = sent
                /\ message_index' = NextIndex(message_index)
                /\ clock' = now
                /\ UNCHANGED emitter
    /\ last_step' = [kind |-> "tick"]
    /\ UNCHANGED <<song_offset, enabled_for_song, play_position, last_play_position_update,
                   is_playing, disable_songs_outside_config, overflow_checks, sessions>>

(***************************************************************************)
(* The per-session consumer task: one event, handled to completion         *)
(***************************************************************************)
\* a session handler runs no loop body, writes nothing to the sink, reads no clock
Silent == position' = 0 /\ out' = <<>> /\ clock' = WideZero

\* timeline.map(|timeline| ..)
TimelineClosure(timeline) ==
    IF timeline.some
    THEN /\ play_position' = WideAsI32(WideDiv(timeline.position, TicksPerMs))
         /\ last_play_position_update' = timeline.last_updated_at_ms
    ELSE UNCHANGED <<play_position, last_play_position_update>>

\* a playback closure that stores "not playing" when the model carries no playback
PlaybackClosure_Default(playback) ==
    is_playing' = (playback.some /\ playback.status = "Playing")

\* playback.map(|playback| ..)
PlaybackClosure(playback) ==
    IF playback.some
    THEN is_playing' = (playback.status = "Playing")
    ELSE UNCHANGED is_playing

\* only the most recently created session has a consumer
Spawned_CurrentOnly(session_id) == sessions >= 1 /\ session_id = sessions

\* the consumer task of the session was spawned; it handles the events of its session
\* one at a time, in the order its channel delivers them
Spawned(session_id) == session_id \in 1..sessions

\* Model(model): the timeline closure, then the playback closure
Model(session_id, timeline, playback) ==
    /\ Spawned(session_id)
    /\ TimelineClosure(timeline)
    /\ PlaybackClosure(playback)
    /\ last_step' = [kind |-> "model", timeline |-> timeline, playback |-> playback]
    /\ Silent
    /\ UNCHANGED <<song_offset, enabled_for_song, last_sent_position_update, message_index,
                   emitter, disable_songs_outside_config, overflow_checks, sessions>>

\* Media(model, image): the media closure
Media(session_id, media) ==
    /\ Spawned(session_id)
    /\ IF media.some
       THEN LET song == get_song(Songs, media.title, media.artist)
            IN  IF song = JNull
                THEN /\ enabled_for_song' =
                            IF disable_songs_outside_config THEN FALSE ELSE enabled_for_song
                     /\ song_offset' = 0
                ELSE /\ song_offset' = get_song_offset(song)
                     /\ enabled_for_song' = TRUE
       ELSE UNCHANGED <<song_offset, enabled_for_song>>
    /\ last_step' = [kind |-> "media", media |-> media]
    /\ Silent
    /\ UNCHANGED <<play_position, last_play_position_update, last_sent_position_update,
                   is_playing, message_index, emitter, disable_songs_outside_config,
                   overflow_checks, sessions>>

(***************************************************************************)
(* The manager loop of main: one ManagerEvent, handled to completion       *)
(***************************************************************************)
\* SessionCreated: spawn the consumer task of that session
SessionCreated(session_id) ==
    /\ session_id = sessions + 1
    /\ sessions' = session_id
    /\ last_step' = [kind |-> "created", session_id |-> session_id]
    /\ Silent
    /\ UNCHANGED <<shared, message_index, emitter, disable_songs_outside_config,
                   overflow_checks>>

\* a removal that also marks playback as stopped
SessionRemoved_StopsPlayback(session_id) ==
    /\ session_id \in 1..sessions
    /\ is_playing' = FALSE
    /\ last_step' = [kind |-> "removed"]
    /\ Silent
    /\ UNCHANGED <<song_offset, enabled_for_song, play_position, last_play_position_update,
                   last_sent_position_update, message_index, emitter,
                   disable_songs_outside_config, overflow_checks, sessions>>

\* SessionRemoved: a line is printed. The consumer task of the session ends when its
\* channel closes, which is the provider's doing; events of a removed session that
\* are still queued are handled like any other.
SessionRemoved(session_id) ==
    /\ session_id \in 1..sessions
    /\ last_step' = [kind |-> "removed"]
    /\ Silent
    /\ UNCHANGED <<shared, message_index, emitter, disable_songs_outside_config,
                   overflow_checks, sessions>>

\* CurrentSessionChanged, with Some(id) or None: a line is printed
CurrentSessionChanged(session_id) ==
    /\ session_id.some => session_id.id \in 1..sessions
    /\ last_step' = [kind |-> "current"]
    /\ Silent
    /\ UNCHANGED <<shared, message_index, emitter, disable_songs_outside_config,
                   overflow_checks, sessions>>

SessionIds == 1..MaxSessions

TickStep ==
    \E now \in ClockValues, ffOk \in BOOLEAN, qfOk \in BOOLEAN : Tick(now, ffOk, qfOk)
ModelStep ==
    \E session_id \in SessionIds, timeline \in Timelines \cup {None},
       playback \in Playbacks \cup {None} : Model(session_id, timeline, playback)
MediaStep ==
    \E session_id \in SessionIds, media \in Medias \cup {None} : Media(session_id, media)
SessionCreatedStep ==
    \E session_id \in SessionIds : SessionCreated(session_id)

SessionRemovedStep ==
    \E session_id \in SessionIds : SessionRemoved(session_id)
CurrentSessionChangedStep ==
    \E session_id \in {[some |-> TRUE, id |-> i] : i \in SessionIds} \cup {None} :
        CurrentSessionChanged(session_id)

Next ==
    \/ TickStep
    \/ ModelStep
    \/ MediaStep
    \/ SessionCreatedStep
    \/ SessionRemovedStep
    \/ CurrentSessionChangedStep

Spec == Init /\ [][Next]_vars

(***************************************************************************)
(* The timeline closure store by store, under the runtime's scheduling.    *)
(* Spec takes a handler as one step; here the two stores of the timeline   *)
(* closure are two steps, and a task is polled only when the one thread of *)
(* the current_thread runtime is free, that is when no handler stands      *)
(* between its stores (the closure holds no await).                        *)
(***************************************************************************)
\* a runtime with worker threads: a task is polled whatever the others are doing
ThreadFree_MultiThread == TRUE

\* #[tokio::main(flavor = "current_thread")]: the running task keeps the thread until
\* its next await
ThreadFree == last_step.kind # "stored_position"

\* timeline updates whose position tells their timestamp, so that a pair of stored
\* values shows whether both came from one update
SnapshotTimelines ==
    {[some |-> TRUE, position |-> Wide(0, 10000000), last_updated_at_ms |-> Wide(1668, 1000)],
     [some |-> TRUE, position |-> Wide(34, 727987983), last_updated_at_ms |-> Wide(1668, 2000)],
     [some |-> TRUE, position |-> Wide(19999, 1073731824), last_updated_at_ms |-> Wide(1668, 3000)]}

\* play_position.store(position, ..): the first store of the timeline closure
StorePosition(session_id, timeline, playback) ==
    /\ ThreadFree
    /\ Spawned(session_id)
    /\ play_position' = WideAsI32(WideDiv(timeline.position, TicksPerMs))
    /\ last_step' = [kind |-> "stored_position", timeline |-> timeline, playback |-> playback]
    /\ Silent
    /\ UNCHANGED <<song_offset, enabled_for_song, last_play_position_update,
                   last_sent_position_update, is_playing, message_index, emitter,
                   disable_songs_outside_config, overflow_checks, sessions>>

\* last_play_position_update.store(updated_at, ..), then the playback closure
StoreUpdatedAt ==
    /\ last_step.kind = "stored_position"
    /\ last_play_position_update' = last_step.timeline.last_updated_at_ms
    /\ PlaybackClosure(last_step.playback)
    /\ last_step' = [kind |-> "model", timeline |-> last_step.timeline,
                                       playback |-> last_step.playback]
    /\ Silent
    /\ UNCHANGED <<song_offset, enabled_for_song, play_position, last_sent_position_update,
                   message_index, emitter, disable_songs_outside_config, overflow_checks,
                   sessions>>

TickStores == ThreadFree /\ TickStep
StorePositionStep ==
    \E session_id \in SessionIds, timeline \in SnapshotTimelines,
       playback \in Playbacks \cup {None} : StorePosition(session_id, timeline, playback)
PlaybackStores ==
    /\ ThreadFree
    /\ \E session_id \in SessionIds, playback \in Playbacks : Model(session_id, None, playback)
MediaStores == ThreadFree /\ MediaStep
SessionCreatedStores == ThreadFree /\ SessionCreatedStep

NextStores ==
    \/ TickStores
    \/ StorePositionStep
    \/ StoreUpdatedAt
    \/ PlaybackStores
    \/ MediaStores
    \/ SessionCreatedStores

SpecStores == Init /\ [][NextStores]_vars

(***************************************************************************)
(* Runs in which the player never reports a track of the config            *)
(***************************************************************************)
\* the media updates that get_song resolves to no config song
UnmatchedMedias ==
    {media \in Medias : get_song(Songs, media.title, media.artist) = JNull}

MediaUnmatchedStep ==
    \E session_id \in SessionIds, media \in UnmatchedMedias \cup {None} :
        Media(session_id, media)

NextUnmatched ==
    \/ TickStep
    \/ ModelStep
    \/ MediaUnmatchedStep
    \/ SessionCreatedStep
    \/ SessionRemovedStep
    \/ CurrentSessionChangedStep

SpecUnmatched == Init /\ [][NextUnmatched]_vars

(***************************************************************************)
(* The codec on its own: a position is loaded, then encoded                *)
(***************************************************************************)
HourSamples == {0, 1, 15, 16, 23, 24, 31, 32}
MinuteSamples == {0, 16, 47, 59}
SecondSamples == {0, 16, 47, 59}
MilliSamples == {0, 39, 40, 639, 640, 999}

CodecPositions ==
    {h * MsPerHour + m * MsPerMinute + sec * MsPerSecond + ms :
        h \in HourSamples, m \in MinuteSamples, sec \in SecondSamples, ms \in MilliSamples}

InitCodec ==
    /\ song_offset = 0
    /\ enabled_for_song = FALSE
    /\ play_position = 0
    /\ last_play_position_update = WideZero
    /\ last_sent_position_update = WideZero
    /\ is_playing = FALSE
    /\ disable_songs_outside_config = FALSE
    /\ overflow_checks = FALSE
    /\ out = <<>>
    /\ message_index = 0
    /\ position \in CodecPositions
    /\ emitter = "running"
    /\ clock = WideZero
    /\ sessions = 0
    /\ last_step = [kind |-> "load"]

CodecFrame ==
    UNCHANGED <<shared, message_index, position, emitter, clock,
                disable_songs_outside_config, overflow_checks, sessions>>

\* send_position(position)
EncodeFullFrame ==
    /\ out' = <<send_position(position)>>
    /\ last_step' = [kind |-> "full"]
    /\ CodecFrame

\* send_mtc_quarter_frame(position, i) for each message index in turn
EncodeQuarterFrames ==
    /\ out' = [i \in 1..CursorLen |-> send_mtc_quarter_frame(position, i - 1)]
    /\ last_step' = [kind |-> "quarter"]
    /\ CodecFrame

NextCodec == EncodeFullFrame \/ EncodeQuarterFrames

SpecCodec == InitCodec /\ [][NextCodec]_vars

(***************************************************************************)
(* Claims about the codec, checked under SpecCodec                         *)
(***************************************************************************)
ZeroFullFrame == <<240, 127, 127, 1, 1, 32, 0, 0, 0, 247>>

\* C6: for every position in [0, 32 h) the full-frame message is the 10 bytes
\* F0 7F 7F 01 01 (0x20 | hours) minutes seconds frames F7, the fields being the
\* truncating quotients of the position; for position 0 it is F0 7F 7F 01 01 20 00 00 00 F7.
C6_FullFrameBytes ==
    (last_step.kind = "full" /\ position >= 0 /\ position < 32 * 3600000) =>
        /\ out = << <<240, 127, 127, 1, 1,
                      32 + position \div 3600000,
                      (position % 3600000) \div 60000,
                      (position % 60000) \div 1000,
                      ((position % 1000) * 25) \div 1000,
                      247>> >>
        /\ (position = 0 => out = <<ZeroFullFrame>>)

C6_Witness ==
    /\ last_step.kind = "full"
    /\ position = 31 * 3600000 + 59 * 60000 + 59 * 1000 + 999
    /\ out = << <<240, 127, 127, 1, 1, 63, 59, 59, 24, 247>> >>

\* low nibble of the k-th quarter-frame payload (k = 0..7)
Nibble(k) == out[k + 1][2] % 16

\* C7: for every position in [0, 24 h) the 8 quarter-frame messages are F1 followed by
\* a payload whose high nibble is the message index, and their low nibbles reassemble
\* to the hours, minutes, seconds and frames of the position, with rate code 1.
C7_QuarterFramesRoundTrip ==
    (last_step.kind = "quarter" /\ position >= 0 /\ position < 24 * 3600000) =>
        /\ Len(out) = 8
        /\ \A i \in 1..8 : /\ Len(out[i]) = 2
                           /\ out[i][1] = 241
                           /\ out[i][2] \div 16 = i - 1
        /\ Nibble(0) + (Nibble(1) % 2) * 16 = ((position % 1000) * 25) \div 1000
        /\ Nibble(2) + (Nibble(3) % 4) * 16 = (position % 60000) \div 1000
        /\ Nibble(4) + (Nibble(5) % 4) * 16 = (position % 3600000) \div 60000
        /\ Nibble(6) + (Nibble(7) % 2) * 16 = position \div 3600000
        /\ (Nibble(7) \div 2) % 4 = 1

C7_Witness ==
    /\ last_step.kind = "quarter"
    /\ position = 23 * 3600000 + 59 * 60000 + 47 * 1000 + 999
    /\ out = << <<241, 8>>, <<241, 17>>, <<241, 47>>, <<241, 50>>,
                <<241, 75>>, <<241, 83>>, <<241, 103>>, <<241, 115>> >>

\* C8: for every position p in [0, 24 h), re-assembling the encoded fields as
\* hours*3600000 + minutes*60000 + seconds*1000 + frames*40 gives r with 0 <= p - r < 40.
C8_DecomposeWithinOneFrame ==
    (last_step.kind = "full" /\ position >= 0 /\ position < 24 * 3600000) =>
        LET r == (out[1][6] % 32) * 3600000 + out[1][7] * 60000
                    + out[1][8] * 1000 + out[1][9] * 40
        IN  0 <= position - r /\ position - r < 40

C8_Witness ==
    /\ last_step.kind = "full"
    /\ position = 23 * 3600000 + 639
    /\ out[1][9] = 15

(***************************************************************************)
(* Claims about the engine, checked under Spec                             *)
(***************************************************************************)
\* an i32 as a two-limb value, and the exact sum of two-limb values
WideOf(x) == Wide(x \div Limb, x % Limb)
WideSum(a, b) == Wide(a.hi + b.hi + (a.lo + b.lo) \div Limb, (a.lo + b.lo) % Limb)

\* base + offset + (playing ? max(0, now - lastUpdate) : 0), or 0 when disabled, exactly
ExactPosition(now) ==
    IF ~enabled_for_song THEN WideZero
    ELSE WideSum(WideSum(WideOf(play_position), WideOf(song_offset)),
                 IF is_playing THEN CheckedSubOrZero(now, last_play_position_update)
                 ELSE WideZero)

\* C1: on every emission tick the encoded position is 0 when enabledForTrack is false,
\* and otherwise basePositionMs + offsetMs + (isPlaying ? max(0, now - lastUpdate) : 0).
C1_EncodedPositionIsExact ==
    [][(last_step'.kind = "tick" /\ emitter' = "running") =>
            WideOf(position') = ExactPosition(clock')]_vars

\* C2: while isPlaying stays true and no update arrives, the position estimated by
\* successive ticks is non-decreasing as the clock advances.
C2_EstimateNonDecreasing ==
    [][(/\ last_step.kind = "tick"
        /\ last_step'.kind = "tick"
        /\ emitter' = "running"
        /\ is_playing
        /\ ~WideLess(clock', clock)) => position' >= position]_vars

\* no config song equals the track in both title and artist
NoConfigSong(title, artist) ==
    \A i \in 1..Len(Songs) :
        ~(Songs[i].title = JString(title) /\ Songs[i].artist = JString(artist))

\* the step just taken handled a media update that names a track
MediaHandled(step) == step.kind = "media" /\ step.media.some

\* C3: a media update that matches no config song sets offsetMs to 0, sets
\* enabledForTrack to false when disableSongsOutsideConfig is true, and leaves it at
\* its prior value otherwise.
C3_UnmatchedMedia ==
    [][(/\ MediaHandled(last_step')
        /\ NoConfigSong(last_step'.media.title, last_step'.media.artist)) =>
            /\ song_offset' = 0
            /\ enabled_for_song' =
                   IF disable_songs_outside_config THEN FALSE ELSE enabled_for_song]_vars

C3_Witness ==
    /\ MediaHandled(last_step)
    /\ last_step.media.title = "D"
    /\ last_step.media.artist = "C"
    /\ ~disable_songs_outside_config
    /\ enabled_for_song
    /\ song_offset = 0

\* the first config song, in config order, equal to the track in both fields
FirstConfigSong(title, artist) ==
    Songs[CHOOSE i \in 1..Len(Songs) :
            /\ Songs[i].title = JString(title) /\ Songs[i].artist = JString(artist)
            /\ \A j \in 1..(i - 1) :
                   ~(Songs[j].title = JString(title) /\ Songs[j].artist = JString(artist))]

C5_DisabledEmitsZero ==
    /\ []((last_step.kind = "tick" /\ ~enabled_for_song) =>
              \A i \in 1..Len(out) : out[i] = ZeroFullFrame)
    /\ [][(~enabled_for_song /\ enabled_for_song') =>
              /\ MediaHandled(last_step')
              /\ ~NoConfigSong(last_step'.media.title, last_step'.media.artist)]_vars

C5_Witness ==
    /\ last_step.kind = "tick"
    /\ ~enabled_for_song
    /\ disable_songs_outside_config
    /\ is_playing
    /\ play_position = 1000
    /\ out = <<ZeroFullFrame>>

\* C9: basePositionMs and lastUpdateTimestampMs change only in a timeline update,
\* isPlaying only in a playback-status update, offsetMs and enabledForTrack only in a
\* media update, and a tick changes nothing but lastSentTimestampMs and the cursor.
C9_WritersOfEachField ==
    [][/\ (\/ play_position' # play_position
           \/ last_play_position_update' # last_play_position_update) =>
              (last_step'.kind = "model" /\ last_step'.timeline.some)
       /\ (is_playing' # is_playing) =>
              (last_step'.kind = "model" /\ last_step'.playback.some)
       /\ (song_offset' # song_offset \/ enabled_for_song' # enabled_for_song) =>
              MediaHandled(last_step')
       /\ (last_step'.kind = "tick") =>
              UNCHANGED <<song_offset, enabled_for_song, play_position,
                          last_play_position_update, is_playing,
                          disable_songs_outside_config, sessions>>]_vars

C9_Witness ==
    /\ last_step.kind = "tick"
    /\ last_sent_position_update = Wide(1668, 2000)
    /\ message_index = 3
    /\ is_playing
    /\ enabled_for_song
    /\ song_offset = -3000
    /\ play_position = 3723520

\* C10: once a send fails the emission task stops for good: no tick runs and nothing
\* more is written to the sink; a failed full-frame send leaves lastSentTimestampMs as
\* it was; the session handlers keep running and keep applying their updates.
C10_SendFailureStopsEmission ==
    /\ [][(last_step'.kind = "tick" /\ HasNewUpdate
                /\ \A i \in 1..Len(out') : Len(out'[i]) # 10) =>
              (emitter' = "panicked" /\ out' = <<>> /\ UNCHANGED last_sent_position_update)]_vars
    /\ [][(last_step'.kind = "tick" /\ QuarterFrameDue
                /\ \A i \in 1..Len(out') : Len(out'[i]) # 2) =>
              emitter' = "panicked"]_vars
    /\ [][emitter = "panicked" =>
              /\ emitter' = "panicked"
              /\ last_step'.kind # "tick"
              /\ out' = <<>>
              /\ UNCHANGED <<last_sent_position_update, message_index>>]_vars
    /\ []((emitter = "panicked" /\ sessions > 0) =>
              (ENABLED ModelStep /\ ENABLED MediaStep))
    /\ [][(emitter = "panicked" /\ last_step'.kind = "model") =>
              /\ last_step'.timeline.some =>
                     last_play_position_update' = last_step'.timeline.last_updated_at_ms
              /\ last_step'.playback.some =>
                     is_playing' = (last_step'.playback.status = "Playing")]_vars

C10_Witness ==
    /\ emitter = "panicked"
    /\ ~overflow_checks
    /\ last_step.kind = "model"
    /\ last_step.timeline.some
    /\ last_step.playback.some
    /\ is_playing
    /\ last_play_position_update = Wide(1668, 2000)
    /\ last_sent_position_update = WideZero

\* the messages of a tick that are full-frame messages (10 bytes) and quarter-frame
\* messages (2 bytes)
FullFrames(written) == {i \in 1..Len(written) : Len(written[i]) = 10}
QuarterFrameMessages(written) == {i \in 1..Len(written) : Len(written[i]) = 2}

\* C11: a tick that directly follows an applied timeline update, and does not fail,
\* emits a full-frame message, also when the update repeats a lastUpdatedAtMs value
\* while changing positionTicks.
C11_UpdateThenFullFrame ==
    [][(/\ last_step.kind = "model"
        /\ last_step.timeline.some
        /\ last_step'.kind = "tick"
        /\ emitter' = "running") => FullFrames(out') # {}]_vars

\* the message-type selector of a quarter-frame message: the high nibble of its payload
Selector(message) == message[2] \div 16

\* C12: a tick that runs with isPlaying and enabledForTrack true, and does not fail,
\* sends exactly one quarter-frame message, as its last message, with the cursor as
\* selector, and moves the cursor to the next selector modulo 8; no other step moves
\* the cursor. So 8 consecutive such ticks carry the selectors k, k+1, .., 7, 0, .., k-1.
C12_SelectorsInCyclicOrder ==
    /\ [][(/\ last_step'.kind = "tick"
           /\ emitter' = "running"
           /\ is_playing
           /\ enabled_for_song) =>
              /\ QuarterFrameMessages(out') = {Len(out')}
              /\ out'[Len(out')][1] = 241
              /\ Selector(out'[Len(out')]) = message_index
              /\ message_index' = (message_index + 1) % 8]_vars
    /\ [][(message_index' # message_index) => last_step'.kind = "tick"]_vars
    /\ [][(/\ last_step.kind = "tick"
           /\ last_step'.kind = "tick"
           /\ emitter' = "running"
           /\ QuarterFrameMessages(out) # {}
           /\ QuarterFrameMessages(out') # {}) =>
              Selector(out'[Len(out')]) = (Selector(out[Len(out)]) + 1) % 8]_vars
    /\ [](message_index \in 0..7)

C12_Witness ==
    /\ last_step.kind = "tick"
    /\ emitter = "running"
    /\ is_playing
    /\ enabled_for_song
    /\ Len(out) = 1
    /\ out[1][1] = 241
    /\ Selector(out[1]) = 7
    /\ message_index = 0

\* the update events a consumer task can be handed
ModelOf(session_id) ==
    \E timeline \in Timelines \cup {None}, playback \in Playbacks \cup {None} :
        Model(session_id, timeline, playback)
MediaOf(session_id) == \E media \in Medias \cup {None} : Media(session_id, media)

\* C13: with two or more session consumer tasks, every one of them can apply its
\* updates at any time; an applied update stores its values in the fields it writes
\* (timeline: basePositionMs and lastUpdateTimestampMs; playback: isPlaying; media:
\* offsetMs and enabledForTrack as the track resolves), whichever session it came from;
\* and a field keeps its value through every step that is not an update writing it.
C13_LastWriterWins ==
    /\ []((sessions >= 2) =>
              \A session_id \in 1..sessions :
                  ENABLED ModelOf(session_id) /\ ENABLED MediaOf(session_id))
    /\ [][(sessions >= 2 /\ last_step'.kind = "model") =>
              /\ IF last_step'.timeline.some
                 THEN /\ WideOf(play_position') =
                             WideDiv(last_step'.timeline.position, 10000)
                      /\ last_play_position_update' =
                             last_step'.timeline.last_updated_at_ms
                 ELSE UNCHANGED <<play_position, last_play_position_update>>
              /\ IF last_step'.playback.some
                 THEN is_playing' = (last_step'.playback.status = "Playing")
                 ELSE UNCHANGED is_playing
              /\ UNCHANGED <<song_offset, enabled_for_song>>]_vars
    /\ [][(sessions >= 2 /\ last_step'.kind = "media") =>
              /\ IF ~last_step'.media.some
                 THEN UNCHANGED <<song_offset, enabled_for_song>>
                 ELSE IF NoConfigSong(last_step'.media.title, last_step'.media.artist)
                 THEN /\ song_offset' = 0
                      /\ enabled_for_song' =
                             (enabled_for_song /\ ~disable_songs_outside_config)
                 ELSE /\ song_offset' =
                             LET entry == FirstConfigSong(last_step'.media.title,
                                                          last_step'.media.artist).timecodeOffset
                             IN  IF entry.kind = "Number" THEN entry.n ELSE 0
                      /\ enabled_for_song' = TRUE
              /\ UNCHANGED <<play_position, last_play_position_update, is_playing>>]_vars
    /\ [][(sessions >= 2 /\ last_step'.kind \notin {"model", "media"}) =>
              UNCHANGED shared \/ (last_step'.kind = "tick" /\
                  UNCHANGED <<song_offset, enabled_for_song, play_position,
                              last_play_position_update, is_playing>>)]_vars

C13_Witness ==
    /\ sessions = 2
    /\ last_step.kind = "model"
    /\ last_step.timeline.some
    /\ ~last_step.playback.some
    /\ play_position = 3723520
    /\ last_play_position_update = Wide(1668, 2000)
    /\ last_sent_position_update = Wide(1668, 1000)
    /\ is_playing
    /\ song_offset = -3000
    /\ enabled_for_song

\* C14: on every tick that does not fail: if lastUpdateTimestampMs differs from
\* lastSentTimestampMs at the start of the tick, exactly one full-frame message is
\* emitted, it encodes the tick's position and comes before any quarter-frame message,
\* whatever isPlaying and enabledForTrack are; if they are equal no full-frame message
\* is emitted; at the end of the tick lastSentTimestampMs equals lastUpdateTimestampMs.
C14_FullFrameIffNewUpdate ==
    [][(last_step'.kind = "tick" /\ emitter' = "running") =>
          /\ IF last_play_position_update # last_sent_position_update
             THEN /\ FullFrames(out') = {1}
                  /\ out'[1] = send_position(position')
             ELSE FullFrames(out') = {}
          /\ QuarterFrameMessages(out') = (1..Len(out')) \ FullFrames(out')
          /\ last_sent_position_update' = last_play_position_update
          /\ last_sent_position_update' = last_play_position_update']_vars

C14_Witness ==
    /\ last_step.kind = "tick"
    /\ emitter = "running"
    /\ Len(out) = 2
    /\ out[1] = <<240, 127, 127, 1, 1, 33, 2, 8, 13, 247>>
    /\ out[2][1] = 241
    /\ position = 3723520 + 5000
    /\ last_sent_position_update = Wide(1668, 2000)
    /\ last_play_position_update = Wide(1668, 2000)

\* C15: on a tick that does not fail the cursor advances by one modulo 8 when the tick
\* emits a quarter-frame message and stays as it is when the tick emits none.
C15_CursorFollowsEmission ==
    [][(last_step'.kind = "tick" /\ emitter' = "running") =>
          message_index' = IF QuarterFrameMessages(out') # {}
                           THEN (message_index + 1) % 8
                           ELSE message_index]_vars

\* C16: a session-removed or current-session-changed notification changes none of
\* basePositionMs, lastUpdateTimestampMs, isPlaying, offsetMs, enabledForTrack, nor
\* lastSentTimestampMs, the cursor or the emission task, and a running emission loop
\* can take its next tick after it: what the loop emits is what it would have emitted.
C16_NotificationsChangeNothing ==
    /\ [][(last_step'.kind \in {"removed", "current"}) =>
              UNCHANGED <<song_offset, enabled_for_song, play_position,
                          last_play_position_update, is_playing,
                          last_sent_position_update, message_index, emitter>>]_vars
    /\ []((last_step.kind \in {"removed", "current"} /\ emitter = "running") =>
              ENABLED TickStep)

C16_Witness ==
    /\ last_step.kind = "removed"
    /\ sessions = 1
    /\ emitter = "running"
    /\ is_playing
    /\ enabled_for_song
    /\ song_offset = 5000
    /\ play_position = 3723520
    /\ last_play_position_update = Wide(1668, 2000)
    /\ last_sent_position_update = Wide(1668, 1000)
    /\ message_index = 5

(***************************************************************************)
(* Claims about the scheduling, checked under SpecStores                   *)
(***************************************************************************)
\* basePositionMs and lastUpdateTimestampMs are both initial or both of one update
OneUpdateSnapshot ==
    \/ play_position = 0 /\ last_play_position_update = WideZero
    \/ \E timeline \in SnapshotTimelines :
           /\ WideOf(play_position) = WideDiv(timeline.position, 10000)
           /\ last_play_position_update = timeline.last_updated_at_ms

\* C17: under the single-threaded cooperative runtime every tick loads a
\* basePositionMs and a lastUpdateTimestampMs that are both initial or both stored by
\* the same timeline update, for every interleaving of ticks with the stores of the
\* sessions' handlers.
C17_TickReadsOneUpdate ==
    [][(last_step'.kind = "tick") => OneUpdateSnapshot]_vars

C17_Witness ==
    /\ last_step.kind = "tick"
    /\ sessions = 2
    /\ emitter = "running"
    /\ play_position = 3723520
    /\ last_play_position_update = Wide(1668, 2000)
    /\ last_sent_position_update = Wide(1668, 2000)
    /\ Len(out) = 1
    /\ out[1] = <<240, 127, 127, 1, 1, 33, 2, 0, 13, 247>>

(***************************************************************************)
(* Claims about runs without a matched track, checked under SpecUnmatched  *)
(***************************************************************************)
\* C18: enabledForTrack starts false, and as long as no media update matching a config
\* song has occurred it stays false, no quarter-frame message is emitted and every
\* full-frame message emitted (the one at startup included) encodes position 0, for
\* either value of disableSongsOutsideConfig; with an empty songs list no track matches.
C18_NothingBeforeFirstMatch ==
    /\ ~enabled_for_song
    /\ \A i \in 1..Len(out) : out[i] = ZeroFullFrame
    /\ \A track \in Tracks : get_song(<<>>, track[1], track[2]) = JNull

C18_Witness ==
    /\ last_step.kind = "tick"
    /\ emitter = "running"
    /\ ~disable_songs_outside_config
    /\ is_playing
    /\ play_position = 3723520
    /\ last_sent_position_update = Wide(1668, 2000)
    /\ message_index = 4
    /\ out = <<ZeroFullFrame>>

(***************************************************************************)
(* Claims about the range of the encoded position, checked under Spec      *)
(***************************************************************************)
\* the data bytes of a message: all but the status bytes F0, F7 and F1
DataBytes(message) ==
    {message[j] : j \in (1..Len(message)) \ {1, IF Len(message) = 10 THEN 10 ELSE 1}}

\* C19: the position a tick hands to the encoders is never negative and every data
\* byte of every message it writes is at most 0x7F.
C19_PositionInRange ==
    (last_step.kind = "tick" /\ out # <<>>) =>
        /\ position >= 0
        /\ \A i \in 1..Len(out) : \A byte \in DataBytes(out[i]) : byte <= 127

====
